---- MODULE Spec2Model ----
(***************************************************************************)
(* Model of spark_rapids_tools/utils/util.py: the identifier case          *)
(* converters, the path / URI canonicalisation and init_environment.       *)
(*                                                                         *)
(* A Python str is a sequence of one-character strings, so that split,     *)
(* capitalize, lstrip, normpath, quote ... are computed character by       *)
(* character as the interpreter computes them.                             *)
(***************************************************************************)
EXTENDS Integers, Sequences, FiniteSets, TLC

VARIABLES
    word, c_op, c_out,                 \* case converters: input, last call, its result
    fpath, home, cwd, p_op, p_out, p_prev,  \* path resolver: input, $HOME, cwd, last call, result
    environ, fs, stdout, now, calls, ret, published  \* init_environment

caseVars == <<word, c_op, c_out>>
pathVars == <<fpath, home, cwd, p_op, p_out, p_prev>>
envVars  == <<environ, fs, stdout, now, calls, ret, published>>
vars     == <<word, c_op, c_out, fpath, home, cwd, p_op, p_out, p_prev,
              environ, fs, stdout, now, calls, ret, published>>

\* ------------------------------------------------------------------ bounds
MaxWordLen == 5
MaxPathLen == 5
MaxPathLikeLen == 3
MaxCalls == 2
MaxClock == 1

\* ------------------------------------------------------------ str helpers
\* All strings over alphabet A of length at most n.
Strs(A, n) == UNION {[1..k -> A] : k \in 0..n}

\* ''.join(parts)
RECURSIVE join(_)
join(parts) == IF parts = <<>> THEN <<>> ELSE Head(parts) \o join(Tail(parts))

\* s.split(sep) for a one-character separator: always at least one segment.
RECURSIVE split(_, _)
split(s, sep) ==
    IF s = <<>> THEN << <<>> >>
    ELSE LET rest == split(Tail(s), sep)
         IN  IF Head(s) = sep
             THEN << <<>> >> \o rest
             ELSE << <<Head(s)>> \o Head(rest) >> \o Tail(rest)

\* s.lstrip(ch)
RECURSIVE lstrip(_, _)
lstrip(s, ch) ==
    IF s # <<>> /\ Head(s) = ch THEN lstrip(Tail(s), ch) ELSE s

\* c.isupper(), c.upper(), c.lower() on the characters of the model.
isupper(c) == c \in {"A", "B"}
upper(c) == CASE c = "a" -> "A" [] c = "b" -> "B" [] OTHER -> c
lower(c) == CASE c = "A" -> "a" [] c = "B" -> "b" [] OTHER -> c

\* x.capitalize(): first character uppercased, ALL the others lowercased.
capitalize(x) ==
    IF x = <<>> THEN <<>>
    ELSE <<upper(Head(x))>> \o [i \in 1..(Len(x) - 1) |-> lower(x[i + 1])]

\* ------------------------------------------------------- case converters
\* x.capitalize() or '_'
capitalize_only(x) == capitalize(x)
capitalize_or_underscore(x) ==
    IF capitalize(x) = <<>> THEN <<"_">> ELSE capitalize(x)

to_camel_case(w) ==
    LET segs == split(w, "_")
    IN  Head(segs) \o join([i \in 1..(Len(segs) - 1) |->
                               capitalize_or_underscore(segs[i + 1])])

to_camel_capital_case(w) ==
    LET segs == split(w, "_")
    IN  join([i \in 1..Len(segs) |-> capitalize(segs[i])])

\* the list comprehension of to_snake_case, before the lstrip
snake_pieces(w) ==
    [i \in 1..Len(w) |-> IF isupper(w[i]) THEN <<"_", lower(w[i])>> ELSE <<w[i]>>]

to_snake_case_no_lstrip(w) == join(snake_pieces(w))
to_snake_case_strip_one(w) ==
    LET r == join(snake_pieces(w))
    IN  IF r # <<>> /\ Head(r) = "_" THEN Tail(r) ELSE r
to_snake_case(w) == lstrip(join(snake_pieces(w)), "_")

CaseAlphabet == {"a", "b", "A", "_", "1"}
Words == Strs(CaseAlphabet, MaxWordLen)

Call_to_camel_case ==
    /\ c_op = "none"
    /\ c_op' = "to_camel_case"
    /\ c_out' = to_camel_case(word)
    /\ UNCHANGED <<word, pathVars, envVars>>

Call_to_camel_capital_case ==
    /\ c_op = "none"
    /\ c_op' = "to_camel_capital_case"
    /\ c_out' = to_camel_capital_case(word)
    /\ UNCHANGED <<word, pathVars, envVars>>

Call_to_snake_case ==
    /\ c_op = "none"
    /\ c_op' = "to_snake_case"
    /\ c_out' = to_snake_case(word)
    /\ UNCHANGED <<word, pathVars, envVars>>

\* to_snake_case applied to the result of to_camel_capital_case
Call_to_snake_case_of_result ==
    /\ c_op = "to_camel_capital_case"
    /\ c_op' = "round_trip"
    /\ c_out' = to_snake_case(c_out)
    /\ UNCHANGED <<word, pathVars, envVars>>

\* ------------------------------------------------------ claims C7, C8, C9
\* one or more non-empty words of lowercase letters joined by single underscores
IsLowerSnake(w) ==
    LET segs == split(w, "_")
    IN  \A i \in 1..Len(segs) :
            /\ segs[i] # <<>>
            /\ \A j \in 1..Len(segs[i]) : segs[i][j] \in {"a", "b"}

\* C7: for every input s made of one or more non-empty lowercase words joined
\* by single underscores, to_snake_case(to_camel_capital_case(s)) == s.
C7_RoundTrip ==
    (c_op = "round_trip" /\ IsLowerSnake(word)) => c_out = word

C7_Witness ==
    /\ c_op = "round_trip"
    /\ word = <<"a", "b", "_", "b", "a">>
    /\ c_out = word

\* The piece a segment after the first contributes, as C8 states it: first
\* letter uppercased, the rest unchanged; '_' for an empty segment.
C8_piece_rest_unchanged(seg) ==
    IF seg = <<>> THEN <<"_">> ELSE <<upper(Head(seg))>> \o Tail(seg)

\* The same piece with the rest of the segment lowercased.
C8_piece_rest_lowered(seg) ==
    IF seg = <<>> THEN <<"_">>
    ELSE <<upper(Head(seg))>> \o [i \in 1..(Len(seg) - 1) |-> lower(seg[i + 1])]

RECURSIVE C8_concat_unchanged(_)
C8_concat_unchanged(segs) ==
    IF segs = <<>> THEN <<>>
    ELSE C8_piece_rest_unchanged(Head(segs)) \o C8_concat_unchanged(Tail(segs))

RECURSIVE C8_concat_lowered(_)
C8_concat_lowered(segs) ==
    IF segs = <<>> THEN <<>>
    ELSE C8_piece_rest_lowered(Head(segs)) \o C8_concat_lowered(Tail(segs))

\* C8 as claimed: to_camel_case(word) is the first segment as-is followed by
\* one piece per later segment, a non-empty segment with its first letter
\* uppercased and the rest of its characters unchanged, '_' for an empty one.
C8_AsClaimed ==
    c_op = "to_camel_case" =>
        c_out = Head(split(word, "_")) \o C8_concat_unchanged(Tail(split(word, "_")))

\* C8 amended: the same, except that the rest of a non-empty later segment is
\* lowercased (str.capitalize); to_camel_case("a__b") == "a_B".
C8_Amended ==
    c_op = "to_camel_case" =>
        /\ c_out = Head(split(word, "_")) \o C8_concat_lowered(Tail(split(word, "_")))
        /\ word = <<"a", "_", "_", "b">> => c_out = <<"a", "_", "B">>

\* a later segment with an uppercase character after its first one
C8_Witness ==
    /\ c_op = "to_camel_case"
    /\ word = <<"A", "_", "b", "A">>
    /\ c_out = <<"A", "B", "a">>

\* number of leading '_' of s
RECURSIVE C9_leading_underscores(_)
C9_leading_underscores(s) ==
    IF s # <<>> /\ Head(s) = "_" THEN 1 + C9_leading_underscores(Tail(s)) ELSE 0

\* every uppercase c replaced by '_' + lower(c), every other character kept
RECURSIVE C9_replaced(_)
C9_replaced(w) ==
    IF w = <<>> THEN <<>>
    ELSE (IF Head(w) \in {"A", "B"} THEN <<"_", lower(Head(w))>> ELSE <<Head(w)>>)
         \o C9_replaced(Tail(w))

\* C9 as claimed: the replacement, then a leading '_' removed only when the
\* first character of the input was uppercase; an input's own leading
\* underscore is kept.
C9_AsClaimed ==
    c_op = "to_snake_case" =>
        c_out = IF word # <<>> /\ Head(word) \in {"A", "B"}
                THEN Tail(C9_replaced(word))
                ELSE C9_replaced(word)

\* C9 amended: the replacement, then EVERY leading '_' of the result removed,
\* those of the input included; the result never starts with '_'.
C9_Amended ==
    c_op = "to_snake_case" =>
        LET r == C9_replaced(word)
            k == C9_leading_underscores(r)
        IN  /\ c_out = SubSeq(r, k + 1, Len(r))
            /\ (c_out # <<>> => Head(c_out) # "_")

\* an input with a leading underscore of its own, followed by an uppercase
C9_Witness ==
    /\ c_op = "to_snake_case"
    /\ word = <<"_", "A", "b", "_", "A">>
    /\ c_out = <<"a", "b", "_", "_", "a">>

\* ---------------------------------------------------------- path resolver
\* A returned value or a raised exception.
Ok(v)      == [ok |-> TRUE, v |-> v, exc |-> "none"]
Raise(exc) == [ok |-> FALSE, v |-> <<>>, exc |-> exc]

\* The values a caller may pass: a str, an os.PathLike object (it has
\* __fspath__, which returns v), or an object that is neither.
StrArg(v)      == [t |-> "str", v |-> v]
PathLikeArg(v) == [t |-> "pathlike", v |-> v]
OtherArg       == [t |-> "other", v |-> <<>>]

\* $HOME and the password database, as os.path.expanduser reads them:
\* env is the value of HOME or "unset"; pw is the pw_dir of the current uid
\* or "missing" (getpwuid raises KeyError).
Unset   == <<"<unset>">>
Missing == <<"<missing>">>
\* pwd.getpwnam(name).pw_dir, or Missing for KeyError: one known user, "a".
getpwnam(name) == IF name = <<"a">> THEN <<"/", "a">> ELSE Missing

startswith(s, pre) == Len(s) >= Len(pre) /\ SubSeq(s, 1, Len(pre)) = pre

\* s.find('/', 1): the 0-based index of the first '/' at index >= 1, or -1
find_slash_from_1(s) ==
    LET hits == {i \in 2..Len(s) : s[i] = "/"}
    IN  IF hits = {} THEN -1
        ELSE (CHOOSE i \in hits : \A j \in hits : i <= j) - 1

\* s.rstrip('/')
RECURSIVE rstrip_slash(_)
rstrip_slash(s) ==
    IF s # <<>> /\ s[Len(s)] = "/" THEN rstrip_slash(SubSeq(s, 1, Len(s) - 1)) ELSE s

\* posixpath.expanduser(path) with environment h
expanduser(path, h) ==
    IF ~startswith(path, <<"~">>) THEN path
    ELSE LET f  == find_slash_from_1(path)
             i  == IF f < 0 THEN Len(path) ELSE f
             userhome ==
                 IF i = 1
                 THEN (IF h.env = Unset THEN h.pw ELSE h.env)
                 ELSE getpwnam(SubSeq(path, 2, i))
         IN  IF userhome = Missing THEN path
             ELSE LET r == rstrip_slash(userhome) \o SubSeq(path, i + 1, Len(path))
                  IN  IF r = <<>> THEN <<"/">> ELSE r

\* the loop of posixpath.normpath over the components
RECURSIVE norm_comps(_, _, _)
norm_comps(comps, new_comps, initial_slashes) ==
    IF comps = <<>> THEN new_comps
    ELSE LET comp == Head(comps)
         IN  IF comp \in {<<>>, <<".">>}
             THEN norm_comps(Tail(comps), new_comps, initial_slashes)
             ELSE IF \/ comp # <<".", ".">>
                     \/ (initial_slashes = 0 /\ new_comps = <<>>)
                     \/ (new_comps # <<>> /\ new_comps[Len(new_comps)] = <<".", ".">>)
             THEN norm_comps(Tail(comps), Append(new_comps, comp), initial_slashes)
             ELSE IF new_comps # <<>>
             THEN norm_comps(Tail(comps), SubSeq(new_comps, 1, Len(new_comps) - 1),
                             initial_slashes)
             ELSE norm_comps(Tail(comps), new_comps, initial_slashes)

\* '/'.join(comps)
RECURSIVE join_slash(_)
join_slash(comps) ==
    IF comps = <<>> THEN <<>>
    ELSE IF Len(comps) = 1 THEN Head(comps)
    ELSE Head(comps) \o <<"/">> \o join_slash(Tail(comps))

\* posixpath.normpath(path)
normpath(path) ==
    IF path = <<>> THEN <<".">>
    ELSE LET initial_slashes ==
                 IF ~startswith(path, <<"/">>) THEN 0
                 ELSE IF startswith(path, <<"/", "/">>) /\ ~startswith(path, <<"/", "/", "/">>)
                 THEN 2 ELSE 1
             comps == norm_comps(split(path, "/"), <<>>, initial_slashes)
             r == [k \in 1..initial_slashes |-> "/"] \o join_slash(comps)
         IN  IF r = <<>> THEN <<".">> ELSE r

\* posixpath.join(a, b)
path_join(a, b) ==
    IF startswith(b, <<"/">>) THEN b
    ELSE IF a = <<>> \/ a[Len(a)] = "/" THEN a \o b
    ELSE a \o <<"/">> \o b

\* posixpath.abspath(path) in working directory d
abspath(path, d) ==
    normpath(IF startswith(path, <<"/">>) THEN path ELSE path_join(d, path))

\* stringify_path(fpath) with environment h and working directory d
stringify_path_no_abspath(arg, h, d) ==
    IF arg.t \in {"str", "pathlike"}
    THEN Ok(expanduser(arg.v, h))
    ELSE Raise("CspPathAttributeError")
stringify_path(arg, h, d) ==
    IF arg.t \in {"str", "pathlike"}
    THEN Ok(abspath(expanduser(arg.v, h), d))
    ELSE Raise("CspPathAttributeError")

\* re.match(r'\w+://', s) is not None; \w is a letter, a digit or '_'
IsWordChar(c) == c \in {"a", "f", "i", "l", "e", "A", "3", "_"}
re_match_scheme(s) ==
    \E k \in 1..Len(s) :
        /\ \A i \in 1..k : IsWordChar(s[i])
        /\ Len(s) >= k + 3
        /\ SubSeq(s, k + 1, k + 3) = <<":", "/", "/">>

\* str(pathlib.PurePosixPath(path)): root '/' or '//' kept, empty and '.'
\* components dropped
PurePath_str(path) ==
    LET root == IF ~startswith(path, <<"/">>) THEN <<>>
                ELSE IF startswith(path, <<"/", "/">>) /\ ~startswith(path, <<"/", "/", "/">>)
                THEN <<"/", "/">> ELSE <<"/">>
        parts == SelectSeq(split(path, "/"), LAMBDA x : x # <<>> /\ x # <<".">>)
        r == root \o join_slash(parts)
    IN  [root |-> root, str |-> IF r = <<>> THEN <<".">> ELSE r]

\* urllib.parse.quote with safe='/': letters, digits, '_.-~' and '/' are kept
quote_char(c) == IF c = ":" THEN <<"%", "3", "A">> ELSE <<c>>
quote(s) == join([i \in 1..Len(s) |-> quote_char(s[i])])

FileScheme == <<"f", "i", "l", "e", ":", "/", "/">>

\* pathlib.PurePath(path).as_uri()
as_uri(path) ==
    LET pp == PurePath_str(path)
    IN  IF pp.root = <<>> THEN Raise("ValueError")
        ELSE Ok(FileScheme \o quote(pp.str))

\* get_path_as_uri(fpath) with environment h and working directory d
get_path_as_uri_always_resolves(arg, h, d) ==
    IF arg.t # "str" THEN Raise("TypeError")
    ELSE LET local_path == stringify_path(arg, h, d)
         IN  IF local_path.ok THEN as_uri(local_path.v) ELSE local_path
get_path_as_uri_no_stringify(arg, h, d) ==
    IF arg.t # "str" THEN Raise("TypeError")
    ELSE IF re_match_scheme(arg.v) THEN Ok(arg.v)
    ELSE as_uri(arg.v)
get_path_as_uri(arg, h, d) ==
    IF arg.t # "str" THEN Raise("TypeError")
    ELSE IF re_match_scheme(arg.v) THEN Ok(arg.v)
    ELSE LET local_path == stringify_path(arg, h, d)
         IN  IF local_path.ok THEN as_uri(local_path.v) ELSE local_path

PathAlphabet == {"a", "~", "/", ".", ":"}
PathArgs ==
    {StrArg(v) : v \in Strs(PathAlphabet, MaxPathLen)}
        \cup {PathLikeArg(v) : v \in Strs(PathAlphabet, MaxPathLikeLen)}
        \cup {OtherArg}
Homes ==
    { [env |-> <<"/", "a">>, pw |-> <<"/", "a">>],
      [env |-> <<"/">>,      pw |-> <<"/", "a">>],
      [env |-> Unset,        pw |-> <<"/", "a">>],
      [env |-> Unset,        pw |-> Missing] }
Cwds == { <<"/">>, <<"/", "a">> }

Call_stringify_path ==
    /\ p_op = "none"
    /\ p_op' = "stringify_path"
    /\ p_out' = stringify_path(fpath, home, cwd)
    /\ UNCHANGED <<fpath, home, cwd, p_prev, caseVars, envVars>>

Call_get_path_as_uri ==
    /\ p_op = "none"
    /\ p_op' = "get_path_as_uri"
    /\ p_out' = get_path_as_uri(fpath, home, cwd)
    /\ UNCHANGED <<fpath, home, cwd, p_prev, caseVars, envVars>>

\* get_path_as_uri applied to the str a first call returned
Call_get_path_as_uri_of_result ==
    /\ p_op = "get_path_as_uri"
    /\ p_out.ok
    /\ p_op' = "get_path_as_uri_twice"
    /\ p_prev' = p_out
    /\ p_out' = get_path_as_uri(StrArg(p_out.v), home, cwd)
    /\ UNCHANGED <<fpath, home, cwd, caseVars, envVars>>

\* ------------------------------------------------------ claims C1, C2, C3
\* length of the leading run of word characters of s
RECURSIVE C1_word_run(_)
C1_word_run(s) ==
    IF s # <<>> /\ Head(s) \in {"a", "f", "i", "l", "e", "A", "3", "_"}
    THEN 1 + C1_word_run(Tail(s)) ELSE 0

\* s starts with one or more word characters followed by '://'
C1_matches_scheme(s) ==
    LET k == C1_word_run(s)
    IN  k >= 1 /\ Len(s) >= k + 3 /\ s[k + 1] = ":" /\ s[k + 2] = "/" /\ s[k + 3] = "/"

\* C1: get_path_as_uri returns a str that starts with word characters and
\* '://' unchanged, and applied to its own result returns it again:
\* to_uri(to_uri(x)) == to_uri(x) == x.
C1_Idempotent ==
    (fpath.t = "str" /\ C1_matches_scheme(fpath.v)) =>
        /\ p_op = "get_path_as_uri" => p_out = Ok(fpath.v)
        /\ p_op = "get_path_as_uri_twice" => (p_prev = Ok(fpath.v) /\ p_out = p_prev)

\* a URI whose rest would change if it were resolved as a local path
C1_Witness ==
    /\ p_op = "get_path_as_uri_twice"
    /\ fpath = StrArg(<<"a", ":", "/", "/", "~">>)
    /\ p_out = Ok(fpath.v)

\* s with every ':' percent-encoded
RECURSIVE C2_percent_encoded(_)
C2_percent_encoded(s) ==
    IF s = <<>> THEN <<>>
    ELSE (IF Head(s) = ":" THEN <<"%", "3", "A">> ELSE <<Head(s)>>)
         \o C2_percent_encoded(Tail(s))

\* the result is the file:// URI of the canonical path of the argument
C2_is_file_uri_of_canonical ==
    /\ p_out.ok
    /\ stringify_path(fpath, home, cwd).ok
    /\ p_out.v = <<"f", "i", "l", "e", ":", "/", "/">>
                    \o C2_percent_encoded(stringify_path(fpath, home, cwd).v)
    /\ C1_matches_scheme(p_out.v)

\* C2 as claimed: every argument that does not match scheme://, a str or a
\* path-like object, is resolved and returned as a file:// URI.
C2_AsClaimed ==
    (/\ p_op = "get_path_as_uri"
     /\ fpath.t \in {"str", "pathlike"}
     /\ ~(fpath.t = "str" /\ C1_matches_scheme(fpath.v)))
        => C2_is_file_uri_of_canonical

\* C2 amended: that holds of every str argument; an argument that is not a
\* str, path-like or not, makes re.match raise TypeError.
C2_Amended ==
    p_op = "get_path_as_uri" =>
        /\ (fpath.t = "str" /\ ~C1_matches_scheme(fpath.v)) => C2_is_file_uri_of_canonical
        /\ fpath.t # "str" => p_out = Raise("TypeError")

\* a relative path with a character that is percent-encoded
C2_Witness ==
    /\ p_op = "get_path_as_uri"
    /\ fpath = StrArg(<<"a", ":", "/", ".">>)
    /\ cwd = <<"/", "a">>
    /\ p_out = Ok(<<"f", "i", "l", "e", ":", "/", "/", "/", "a", "/", "a", "%", "3", "A">>)

C3_has_tilde(s) == \E i \in 1..Len(s) : s[i] = "~"
C3_absolute(s) == s # <<>> /\ Head(s) = "/"
C3_no_dot_segments(s) ==
    \A i \in 1..Len(split(s, "/")) : split(s, "/")[i] \notin {<<".">>, <<".", ".">>}
\* p is '~' or starts with '~/', and holds no other '~'
C3_only_leading_tilde(p) ==
    /\ p # <<>> /\ Head(p) = "~"
    /\ Len(p) >= 2 => p[2] = "/"
    /\ ~C3_has_tilde(Tail(p))

find_full_rapids_tools_env_key(k) == "RAPIDS_USER_TOOLS_" \o k

EnvKeys == {"HOME", find_full_rapids_tools_env_key("UUID"),
            find_full_rapids_tools_env_key("HOME"),
            find_full_rapids_tools_env_key("LOG_FILE")}

\* Utils.get_sys_env_var(k, def_val): os.environ.get(k, def_val)
get_sys_env_var(env, k, def_val) == IF env[k] = Unset THEN def_val ELSE env[k]

\* Utils.set_rapids_tools_env(k, val)
set_rapids_tools_env(env, k, val) ==
    [env EXCEPT ![find_full_rapids_tools_env_key(k)] = val]

\* Utils.get_rapids_tools_env(k, def_val)
get_rapids_tools_env(env, k, def_val) ==
    get_sys_env_var(env, find_full_rapids_tools_env_key(k), def_val)

\* FSUtil.build_path(path, more): <path>/<more>
build_path(path, more) == path \o <<"/">> \o more

\* Utils.gen_uuid_with_ts(suffix_len=8): the timestamp token followed by a
\* random suffix; the values a call at time t may return
RandomSuffixes == { "0a1B2c3D", "Ff00aA99" }
gen_uuid_with_ts(t) == { <<ToString(t), "_", sfx>> : sfx \in RandomSuffixes }

\* The file system: the directories and regular files (each the tuple of its
\* path's components, <<>> the root) and the directories the process may
\* not write to.
components(path) == SelectSeq(split(path, "/"), LAMBDA x : x # <<>>)
parent(p) == SubSeq(p, 1, Len(p) - 1)
exists(f, p) == p \in f.dirs \cup f.files

\* os.mkdir(p)
mkdir(f, p) ==
    IF exists(f, p) THEN [ok |-> FALSE, exc |-> "FileExistsError", fs |-> f]
    ELSE IF parent(p) \in f.files \/ ~exists(f, parent(p))
    THEN [ok |-> FALSE,
          exc |-> IF parent(p) \in f.files THEN "NotADirectoryError"
                  ELSE "FileNotFoundError",
          fs |-> f]
    ELSE IF parent(p) \in f.ro
    THEN [ok |-> FALSE, exc |-> "PermissionError", fs |-> f]
    ELSE [ok |-> TRUE, exc |-> "none", fs |-> [f EXCEPT !.dirs = @ \cup {p}]]

\* os.makedirs(p, exist_ok=True)
RECURSIVE makedirs(_, _)
makedirs(f, p) ==
    LET up == IF Len(p) > 1 /\ ~exists(f, parent(p))
              THEN makedirs(f, parent(p))
              ELSE [ok |-> TRUE, exc |-> "none", fs |-> f]
    IN  IF ~up.ok THEN up
        ELSE LET r == mkdir(up.fs, p)
             IN  IF ~r.ok /\ p \in up.fs.dirs
                 THEN [ok |-> TRUE, exc |-> "none", fs |-> up.fs]
                 ELSE r

\* FSUtil.make_dirs(dir_path): recursive, an existing directory is a success
make_dirs(f, dir_path) == makedirs(f, components(dir_path))

\* line 149
home_dir_from_tools_env(env) ==
    get_rapids_tools_env(env, "HOME", get_sys_env_var(env, "HOME", <<"/", "tmp">>))
home_dir_default_cwd(env) == get_sys_env_var(env, "HOME", <<".">>)
home_dir(env) == get_sys_env_var(env, "HOME", <<"/", "tmp">>)

\* line 150
tools_home_dir(env) == build_path(home_dir(env), <<".spark_rapids_tools">>)

\* line 154
log_dir(env) == tools_home_dir(env) \o <<"/", "logs">>

\* line 155
log_file_without_uuid(env, short_name, uuid) ==
    log_dir(env) \o <<"/", short_name, ".log">>
log_file(env, short_name, uuid) ==
    log_dir(env) \o <<"/", short_name, "_">> \o uuid \o <<".log">>

\* lines 157-162: what the call prints, given the outcome of make_dirs, whose
\* exception is not caught
Header == <<"Application Logs">>
Notice == <<"In case of any errors, please share the log file with the Spark RAPIDS team.">>
printed_whatever_make_dirs_did(mk, lf) == << Header, <<"Location: ">> \o lf, Notice >>
printed(mk, lf) ==
    IF mk.ok THEN << Header, <<"Location: ">> \o lf, Notice >> ELSE <<>>

ShortNames == { "qualification", "profiling" }

init_environment(short_name) ==
    /\ calls < MaxCalls
    /\ \E uuid \in gen_uuid_with_ts(now) :
        LET env1 == set_rapids_tools_env(environ, "UUID", uuid)
            env2 == set_rapids_tools_env(env1, "HOME", tools_home_dir(env1))
            lf   == log_file(env2, short_name, uuid)
            env3 == set_rapids_tools_env(env2, "LOG_FILE", lf)
            ld   == log_dir(env2)
            mk   == make_dirs(fs, ld)
            call == [short_name |-> short_name, uuid |-> uuid, ts |-> now,
                     log_dir |-> ld, log_file |-> lf,
                     pre_isdir |-> components(ld) \in fs.dirs,
                     mk_ok |-> mk.ok,
                     raised |-> IF mk.ok THEN "none" ELSE mk.exc,
                     out_before |-> Len(stdout)]
        IN  /\ environ' = env3
            /\ fs' = mk.fs
            /\ stdout' = stdout \o printed(mk, lf)
            /\ ret' = call
            /\ published' = Append(published, call)
    /\ calls' = calls + 1
    /\ UNCHANGED <<now, caseVars, pathVars>>

\* the clock of the timestamp advances
Tick ==
    /\ now < MaxClock
    /\ now' = now + 1
    /\ UNCHANGED <<environ, fs, stdout, calls, ret, published, caseVars, pathVars>>

\* another process of the tool, same user, creates the log directory
OtherProcessMakeDirs ==
    LET mk == make_dirs(fs, log_dir(environ))
    IN  /\ mk.ok
        /\ mk.fs # fs
        /\ fs' = mk.fs
        /\ UNCHANGED <<environ, stdout, now, calls, ret, published, caseVars, pathVars>>

HomeValues == { Unset, <<"/", "home", "/", "u">>, <<"/", "root">> }

\* the file systems a start may find, for the base directory b the log
\* directory goes under
FsStates(b) ==
    LET base  == components(b)
        tools == Append(base, <<".spark_rapids_tools">>)
        logs  == Append(tools, <<"logs">>)
        anc   == {SubSeq(base, 1, k) : k \in 0..Len(base)}
    IN  { [dirs |-> anc, files |-> {}, ro |-> {}],
          [dirs |-> anc \cup {tools, logs}, files |-> {}, ro |-> {}],
          [dirs |-> anc, files |-> {}, ro |-> {base}],
          [dirs |-> anc \cup {tools}, files |-> {logs}, ro |-> {}],
          [dirs |-> anc, files |-> {tools}, ro |-> {}],
          [dirs |-> anc \ {base}, files |-> {}, ro |-> {}] }

NoCall == [short_name |-> "", uuid |-> <<>>, ts |-> 0, log_dir |-> <<>>,
           log_file |-> <<>>, pre_isdir |-> FALSE, mk_ok |-> FALSE,
           raised |-> "no call", out_before |-> 0]

\* ------------------------------------------------- claims C4, C5, C6, C10
C4_same_name_pairs ==
    { pr \in (1..Len(published)) \X (1..Len(published)) :
        pr[1] < pr[2] /\ published[pr[1]].short_name = published[pr[2]].short_name }

C5_base == IF environ["HOME"] = Unset THEN <<"/", "tmp">> ELSE environ["HOME"]

\* C5: after a successful init_environment(short_name) the home entry is
\* <base>/.spark_rapids_tools, base being HOME or '/tmp' when HOME is unset,
\* the log-file entry is <home entry>/logs/<short_name>_<run identifier>.log
\* and the directory <home entry>/logs exists.
C5_Consistent ==
    ret.raised = "none" =>
        /\ environ["RAPIDS_USER_TOOLS_HOME"] = C5_base \o <<"/", ".spark_rapids_tools">>
        /\ environ["RAPIDS_USER_TOOLS_LOG_FILE"] =
              environ["RAPIDS_USER_TOOLS_HOME"] \o <<"/", "logs", "/", ret.short_name, "_">>
                  \o environ["RAPIDS_USER_TOOLS_UUID"] \o <<".log">>
        /\ components(environ["RAPIDS_USER_TOOLS_HOME"] \o <<"/", "logs">>) \in fs.dirs

C5_Witness ==
    /\ ret.raised = "none"
    /\ environ["HOME"] = Unset
    /\ environ["RAPIDS_USER_TOOLS_HOME"] = <<"/", "tmp", "/", ".spark_rapids_tools">>
    /\ <<<<"tmp">>, <<".spark_rapids_tools">>, <<"logs">>>> \in fs.dirs

\* C6: a log directory that is already there is a success; a failed creation
\* raises its error out of init_environment, and nothing is printed by a call
\* whose creation failed: three lines per successful call, none otherwise.
C6_FailurePropagates ==
    /\ \A i \in 1..Len(published) :
          /\ published[i].pre_isdir => published[i].mk_ok
          /\ published[i].mk_ok <=> published[i].raised = "none"
          /\ ~published[i].mk_ok =>
                published[i].raised \in {"PermissionError", "FileExistsError",
                                         "NotADirectoryError"}
    /\ Len(stdout) = 3 * Cardinality({i \in 1..Len(published) : published[i].mk_ok})
    /\ ret.raised \notin {"none", "no call"} => Len(stdout) = ret.out_before
    /\ ret.raised = "none" =>
          /\ Len(stdout) = ret.out_before + 3
          /\ stdout[Len(stdout) - 1] = <<"Location: ">> \o ret.log_file

\* a regular file where the log directory should be
C6_Witness ==
    /\ calls = 1
    /\ ret.raised = "FileExistsError"
    /\ components(ret.log_dir) \in fs.files
    /\ stdout = <<>>

\* C10: init_environment never changes the user's HOME, so every call of a
\* process derives <HOME>/.spark_rapids_tools, never a nested
\* .spark_rapids_tools/.spark_rapids_tools, and uses the same log directory.
C10_HomeNotNested ==
    /\ environ["HOME"] \in HomeValues
    /\ \A i \in 1..Len(published) :
          published[i].log_dir = C5_base \o <<"/", ".spark_rapids_tools", "/", "logs">>
    /\ calls > 0 =>
          environ["RAPIDS_USER_TOOLS_HOME"] = C5_base \o <<"/", ".spark_rapids_tools">>

C10_Witness ==
    /\ Len(published) = 2
    /\ environ["HOME"] = <<"/", "root">>
    /\ environ["RAPIDS_USER_TOOLS_HOME"] = <<"/", "root", "/", ".spark_rapids_tools">>
    /\ published[1].log_dir = published[2].log_dir

\* ---------------------------------------------------------- specifications
\* Each part of the module is checked on its own: the other parts' variables
\* keep the idle values given here.
IdleHome == [env |-> Unset, pw |-> Missing]
IdleFs   == [dirs |-> {<<>>}, files |-> {}, ro |-> {}]

\* the case converters, applied to every word over CaseAlphabet
InitCase ==
    /\ word \in Words
    /\ c_op = "none"
    /\ c_out = <<>>
    /\ fpath = OtherArg /\ home = IdleHome /\ cwd = <<"/">>
    /\ p_op = "idle" /\ p_out = Ok(<<>>) /\ p_prev = Ok(<<>>)
    /\ environ = [k \in EnvKeys |-> Unset] /\ fs = IdleFs /\ stdout = <<>>
    /\ now = 0 /\ calls = 0 /\ ret = NoCall /\ published = <<>>

NextCase ==
    \/ Call_to_camel_case
    \/ Call_to_camel_capital_case
    \/ Call_to_snake_case
    \/ Call_to_snake_case_of_result

SpecCase == InitCase /\ [][NextCase]_vars

\* the path resolver, applied to every argument of PathArgs in every
\* environment of Homes and Cwds
InitPath ==
    /\ fpath \in PathArgs
    /\ home \in Homes
    /\ cwd \in Cwds
    /\ p_op = "none"
    /\ p_out = Ok(<<>>)
    /\ p_prev = Ok(<<>>)
    /\ word = <<>> /\ c_op = "idle" /\ c_out = <<>>
    /\ environ = [k \in EnvKeys |-> Unset] /\ fs = IdleFs /\ stdout = <<>>
    /\ now = 0 /\ calls = 0 /\ ret = NoCall /\ published = <<>>

NextPath ==
    \/ Call_stringify_path
    \/ Call_get_path_as_uri
    \/ Call_get_path_as_uri_of_result

SpecPath == InitPath /\ [][NextPath]_vars

\* init_environment, called up to MaxCalls times in one process
InitEnv ==
    /\ \E h \in HomeValues :
        /\ environ = [k \in EnvKeys |-> IF k = "HOME" THEN h ELSE Unset]
        /\ fs \in FsStates(IF h = Unset THEN <<"/", "tmp">> ELSE h)
    /\ stdout = <<>>
    /\ now = 0
    /\ calls = 0
    /\ ret = NoCall
    /\ published = <<>>
    /\ word = <<>> /\ c_op = "idle" /\ c_out = <<>>
    /\ fpath = OtherArg /\ home = IdleHome /\ cwd = <<"/">>
    /\ p_op = "idle" /\ p_out = Ok(<<>>) /\ p_prev = Ok(<<>>)

NextEnv ==
    \/ \E short_name \in ShortNames : init_environment(short_name)
    \/ Tick
    \/ OtherProcessMakeDirs

SpecEnv == InitEnv /\ [][NextEnv]_vars

====
